---------------------------- MODULE Spec2Model ----------------------------
(***************************************************************************)
(* A model of genaialogy's FamilyTree (src/genaialogy/tools/gedcom.py) and *)
(* of the lineage report that consumes it (tools/biography.py).            *)
(*                                                                         *)
(* The parsed GEDCOM file is the sequence of root child elements held by   *)
(* the parser.  An element is a record [tag, ptr, name, subs]; subs is the *)
(* sequence of its child elements [tag, value, subs].  An element object   *)
(* is referred to by its pointer (pointers are unique within a file), and  *)
(* Python's None by the string None.                                       *)
(***************************************************************************)
EXTENDS Naturals, Sequences, FiniteSets, TLC

VARIABLES
    parser,       \* FamilyTree.parser: the root child elements, in file order
    root_notes,   \* FamilyTree.root_notes: pointer -> top-level NOTE element
    query,        \* per caller: the (ancestor_name, descendant_name) of find_path
    target,       \* per caller: target_person of the running search (a pointer)
    stack,        \* per caller: the frames of find_path_recursive, innermost last
    visited,      \* per caller: the visited set of the running search
    result,       \* per caller: the value being returned up the recursion
    pc,           \* per caller: idle | search | unwind | done
    outcome,      \* per caller: what find_path returned or raised
    previous,     \* per caller: the outcome of the find_path call before this one
    report,       \* per caller: what write_lineage_report did with the outcome
    ret           \* the last relationship query made: [op, arg, value]

vars == <<parser, root_notes, query, target, stack, visited, result, pc,
          outcome, previous, report, ret>>

\* the FamilyTree, which no operation modifies, and the last query on it
tree == <<parser, root_notes, ret>>
\* the state of the callers of find_path
callers == <<query, target, stack, visited, result, pc, outcome, previous, report>>

None == "None"

-----------------------------------------------------------------------------
(* Bounds of the model *)

\* children (CHIL lines) per union
MaxChil == 2
\* children (CHIL lines) per union in the files searched by two callers at once
ConcMaxChil == 1

\* the individual and union pointers of the files considered
IndiPtrs == <<"@I1@", "@I2@", "@I3@">>
FamPtrs == <<"@F1@", "@F2@">>

Range(s) == {s[i] : i \in DOMAIN s}

RECURSIVE SeqsNoDup(_, _)
\* the sequences of at most n distinct members of S
SeqsNoDup(S, n) ==
    IF n = 0 THEN {<<>>}
    ELSE LET shorter == SeqsNoDup(S, n - 1)
         IN  shorter \cup UNION {{Append(s, x) : x \in S \ Range(s)} :
                                    s \in {t \in shorter : Len(t) = n - 1}}

-----------------------------------------------------------------------------
(* The elements of a file *)

Leaf(tag, value) == [tag |-> tag, value |-> value, subs |-> <<>>]

TupleName(given, surname) == [tuple |-> TRUE, parts |-> <<given, surname>>]
StringName(s) == [tuple |-> FALSE, parts |-> <<s>>]

IndiElement(ptr, name, subs) ==
    [tag |-> "INDI", ptr |-> ptr, name |-> name, subs |-> subs]
FamElement(ptr, subs) ==
    [tag |-> "FAM", ptr |-> ptr, name |-> StringName(""), subs |-> subs]


-----------------------------------------------------------------------------
(* The parser's interface (python-gedcom's Parser, used by FamilyTree) *)

\* Parser.get_element_dictionary: pointer -> element
ElementDictionary(els) ==
    [p \in {els[i].ptr : i \in DOMAIN els} |->
        els[CHOOSE i \in DOMAIN els : els[i].ptr = p]]

\* the values of the child elements of element e that carry the tag and
\* point to an element of the file
Referenced(els, e, tag) ==
    LET dict == ElementDictionary(els)
        hits == SelectSeq(e.subs, LAMBDA c : c.tag = tag /\ c.value \in DOMAIN dict)
    IN  [i \in DOMAIN hits |-> hits[i].value]

\* Parser.get_families(individual, family_type): the unions the individual's
\* FAMS (or FAMC) lines point to, in the order of those lines
get_families(els, individual, family_type) ==
    LET dict == ElementDictionary(els)
    IN  SelectSeq(Referenced(els, dict[individual], family_type),
                  LAMBDA f : dict[f].tag = "FAM")

\* Parser.get_family_members(family, members_type): the elements the union's
\* HUSB, WIFE or CHIL lines point to, in the order of those lines
get_family_members(els, family, members_type) ==
    Referenced(els, ElementDictionary(els)[family], members_type)

-----------------------------------------------------------------------------
(* gedcom.py: names and lookup by name *)

RECURSIVE JoinFrom(_, _, _)
\* sep.join(parts[i:])
JoinFrom(sep, parts, i) ==
    IF i > Len(parts) THEN ""
    ELSE IF i = Len(parts) THEN parts[i]
    ELSE parts[i] \o sep \o JoinFrom(sep, parts, i + 1)

\* " ".join(name_tuple) if isinstance(name_tuple, tuple) else name_tuple
format_name(name) ==
    IF name.tuple THEN JoinFrom(" ", name.parts, 1) ELSE name.parts[1]

RECURSIVE ScanByName(_, _, _)
\* the loop of find_individual_by_name from root child element i on
ScanByName(els, name, i) ==
    IF i > Len(els) THEN None
    ELSE IF els[i].tag = "INDI" /\ format_name(els[i].name) = name
         THEN els[i].ptr
         ELSE ScanByName(els, name, i + 1)

RECURSIVE ScanBackByName(_, _, _)
\* the scan from the last root child element to the first
ScanBackByName(els, name, i) ==
    IF i < 1 THEN None
    ELSE IF els[i].tag = "INDI" /\ format_name(els[i].name) = name
         THEN els[i].ptr
         ELSE ScanBackByName(els, name, i - 1)

\* the last individual of the name is returned instead of the first
find_last_individual_by_name(els, name) == ScanBackByName(els, name, Len(els))

\* FamilyTree.find_individual_by_name
find_individual_by_name(els, name) == ScanByName(els, name, 1)

\* FamilyTree.cache_notes: the top-level NOTE elements that have a pointer
cache_notes(els) ==
    LET idx == {i \in DOMAIN els : els[i].tag = "NOTE" /\ els[i].ptr # ""}
    IN  [p \in {els[i].ptr : i \in idx} |->
            els[CHOOSE i \in idx : els[i].ptr = p
                                   /\ \A j \in idx : els[j].ptr = p => j <= i]]


-----------------------------------------------------------------------------
(* The parser's interface: what an IndividualElement tells about itself *)

\* the value of the last of the elements subs that carries the tag, else ""
LastValue(subs, tag) ==
    LET hits == SelectSeq(subs, LAMBDA c : c.tag = tag)
    IN  IF hits = <<>> THEN "" ELSE hits[Len(hits)].value

RECURSIVE EventLines(_, _, _)
\* the child elements of the elements of subs[i..] that carry the tag
EventLines(subs, tag, i) ==
    IF i > Len(subs) THEN <<>>
    ELSE (IF subs[i].tag = tag THEN subs[i].subs ELSE <<>>)
         \o EventLines(subs, tag, i + 1)

\* IndividualElement.get_gender
get_gender(e) == LastValue(e.subs, "SEX")

\* IndividualElement.get_occupation: "" when no OCCU line is recorded
get_occupation(e) == LastValue(e.subs, "OCCU")

\* IndividualElement.get_birth_data: (date, place), "" where not recorded
get_birth_data(e) ==
    <<LastValue(EventLines(e.subs, "BIRT", 1), "DATE"),
      LastValue(EventLines(e.subs, "BIRT", 1), "PLAC")>>

\* IndividualElement.is_deceased
is_deceased(e) == \E i \in DOMAIN e.subs : e.subs[i].tag = "DEAT"

\* IndividualElement.get_death_data: (date, place)
get_death_data(e) ==
    <<LastValue(EventLines(e.subs, "DEAT", 1), "DATE"),
      LastValue(EventLines(e.subs, "DEAT", 1), "PLAC")>>

RECURSIVE strip(_)
\* str.strip(), for the blanks at both ends
strip(str) ==
    IF str = "" THEN ""
    ELSE IF SubSeq(str, 1, 1) = " " THEN strip(SubSeq(str, 2, Len(str)))
    ELSE IF SubSeq(str, Len(str), Len(str)) = " "
         THEN strip(SubSeq(str, 1, Len(str) - 1))
         ELSE str

-----------------------------------------------------------------------------
(* gedcom.py: relationships and aggregation.  Individuals are given by
   pointer and are individuals of the file, so that the lookup of their own
   name finds somebody and the ValueError branches are not taken. *)

\* the display name of the individual with the pointer
NameOf(els, ptr) == format_name(ElementDictionary(els)[ptr].name)

\* the display names of the elements with the pointers
NamesOf(els, ptrs) == [i \in DOMAIN ptrs |-> NameOf(els, ptrs[i])]

RECURSIVE MemberNames(_, _, _, _)
\* the names of the members with the tag of families[i..], union by union
MemberNames(els, families, tag, i) ==
    IF i > Len(families) THEN <<>>
    ELSE NamesOf(els, get_family_members(els, families[i], tag))
         \o MemberNames(els, families, tag, i + 1)

\* only the first union of the individual is looked at (families[0])
find_children_of_first_union(els, individual) ==
    LET found == find_individual_by_name(els, NameOf(els, individual))
        families == get_families(els, found, "FAMS")
    IN  IF families = <<>> THEN <<>>
        ELSE NamesOf(els, get_family_members(els, families[1], "CHIL"))

\* FamilyTree.find_children: the names of the children of the individual
\* that the name of the given individual resolves to
find_children(els, individual) ==
    LET found == find_individual_by_name(els, NameOf(els, individual))
    IN  MemberNames(els, get_families(els, found, "FAMS"), "CHIL", 1)

NoParents == [none |-> TRUE, father |-> None, mother |-> None]

\* the parents are taken from the unions the individual is a parent in
find_parents_fams(els, individual) ==
    LET found == find_individual_by_name(els, NameOf(els, individual))
        families == get_families(els, found, "FAMS")
    IN  IF families = <<>> THEN NoParents
        ELSE LET husbands == get_family_members(els, families[1], "HUSB")
                 wives == get_family_members(els, families[1], "WIFE")
             IN  [none |-> FALSE,
                  father |-> IF husbands # <<>> THEN NameOf(els, husbands[1]) ELSE None,
                  mother |-> IF wives # <<>> THEN NameOf(els, wives[1]) ELSE None]

\* FamilyTree.find_parents: None, or the first HUSB and the first WIFE of the
\* first union in which the resolved individual is a child
find_parents(els, individual) ==
    LET found == find_individual_by_name(els, NameOf(els, individual))
        families == get_families(els, found, "FAMC")
    IN  IF families = <<>> THEN NoParents
        ELSE LET husbands == get_family_members(els, families[1], "HUSB")
                 wives == get_family_members(els, families[1], "WIFE")
             IN  [none |-> FALSE,
                  father |-> IF husbands # <<>> THEN NameOf(els, husbands[1]) ELSE None,
                  mother |-> IF wives # <<>> THEN NameOf(els, wives[1]) ELSE None]

NoSiblings == [none |-> TRUE, names |-> <<>>]

\* the individual asked about is left out of its siblings
find_siblings_without_self(els, individual) ==
    LET found == find_individual_by_name(els, NameOf(els, individual))
        families == get_families(els, found, "FAMC")
    IN  IF families = <<>> THEN NoSiblings
        ELSE [none |-> FALSE,
              names |-> SelectSeq(MemberNames(els, families, "CHIL", 1),
                                  LAMBDA n : n # NameOf(els, individual))]

\* the siblings are taken from the first union only (family = families[0])
find_siblings_of_first_union(els, individual) ==
    LET found == find_individual_by_name(els, NameOf(els, individual))
        families == get_families(els, found, "FAMC")
    IN  IF families = <<>> THEN NoSiblings
        ELSE [none |-> FALSE,
              names |-> NamesOf(els, get_family_members(els, families[1], "CHIL"))]

\* FamilyTree.find_siblings: None, or the names of the CHIL members of every
\* union in which the resolved individual is a child
find_siblings(els, individual) ==
    LET found == find_individual_by_name(els, NameOf(els, individual))
        families == get_families(els, found, "FAMC")
    IN  IF families = <<>> THEN NoSiblings
        ELSE [none |-> FALSE, names |-> MemberNames(els, families, "CHIL", 1)]

\* the entry of find_spouses for one spouse of a union: the dates and the
\* place are those of the last MARR and DIV lines of the union, else None
MarriageInfo(els, family, spouse) ==
    LET lines == ElementDictionary(els)[family].subs
        marr == EventLines(lines, "MARR", 1)
        div == EventLines(lines, "DIV", 1)
        last(ls, tag) == IF \E i \in DOMAIN ls : ls[i].tag = tag
                         THEN LastValue(ls, tag) ELSE None
    IN  [spouse |-> NameOf(els, spouse),
         marriage_date |-> last(marr, "DATE"),
         marriage_place |-> last(marr, "PLAC"),
         divorce_date |-> last(div, "DATE")]

\* the role is read off the recorded sex of the individual
is_husband_by_sex(els, family, individual) ==
    get_gender(ElementDictionary(els)[individual]) = "M"

\* any(husb.get_pointer() == individual.get_pointer() for husb in HUSB members)
is_husband(els, family, individual) ==
    \E k \in DOMAIN get_family_members(els, family, "HUSB") :
        get_family_members(els, family, "HUSB")[k] = individual

RECURSIVE SpousesFrom(_, _, _, _)
\* the loop of find_spouses over families[i..]
SpousesFrom(els, individual, families, i) ==
    IF i > Len(families) THEN <<>>
    ELSE LET spouse_members == get_family_members(els, families[i],
                                   IF is_husband(els, families[i], individual)
                                   THEN "WIFE" ELSE "HUSB")
         IN  [k \in DOMAIN spouse_members |->
                 MarriageInfo(els, families[i], spouse_members[k])]
             \o SpousesFrom(els, individual, families, i + 1)

\* FamilyTree.find_spouses, on the individual as given (no lookup by name)
find_spouses(els, individual) ==
    SpousesFrom(els, individual, get_families(els, individual, "FAMS"), 1)

RECURSIVE NoteLinesLatestFirst(_, _, _)
\* the lines of a note are put before those gathered so far
NoteLinesLatestFirst(notes, lines, i) ==
    IF i > Len(lines) THEN <<>>
    ELSE NoteLinesLatestFirst(notes, lines, i + 1)
         \o (IF lines[i].tag = "NOTE" /\ lines[i].value \in DOMAIN notes
             THEN [k \in DOMAIN notes[lines[i].value].subs |->
                      strip(notes[lines[i].value].subs[k].value)]
             ELSE <<>>)

RECURSIVE NoteLinesInline(_, _, _)
\* a reference to no note of the file is taken for the text of the note
NoteLinesInline(notes, lines, i) ==
    IF i > Len(lines) THEN <<>>
    ELSE (IF lines[i].tag = "NOTE"
          THEN (IF lines[i].value \in DOMAIN notes
                THEN [k \in DOMAIN notes[lines[i].value].subs |->
                         strip(notes[lines[i].value].subs[k].value)]
                ELSE <<lines[i].value>>)
          ELSE <<>>)
         \o NoteLinesInline(notes, lines, i + 1)

RECURSIVE NoteLines(_, _, _)
\* the loop of find_notes over the child elements lines[i..] of the individual
NoteLines(notes, lines, i) ==
    IF i > Len(lines) THEN <<>>
    ELSE (IF lines[i].tag = "NOTE" /\ lines[i].value \in DOMAIN notes
          THEN [k \in DOMAIN notes[lines[i].value].subs |->
                   strip(notes[lines[i].value].subs[k].value)]
          ELSE <<>>)
         \o NoteLines(notes, lines, i + 1)

\* FamilyTree.find_notes: the lines of the referenced notes joined by a
\* blank, None when there is no line
find_notes(els, notes, individual) ==
    LET note_lines == NoteLines(notes, ElementDictionary(els)[individual].subs, 1)
    IN  IF note_lines # <<>> THEN JoinFrom(" ", note_lines, 1) ELSE None

\* info[key] = value when the condition holds
Entry(cond, key, value) == IF cond THEN <<(<<key, value>>)>> ELSE <<>>

\* info["occupation"] = individual.get_occupation()
OccupationEntry(e) == Entry(TRUE, "occupation", get_occupation(e))

\* FamilyTree.dump_individual_info: the mapping as its (key, value) pairs in
\* the order of insertion
dump_individual_info(els, notes, individual) ==
    LET e == ElementDictionary(els)[individual]
        children == find_children(els, individual)
        parents == find_parents(els, individual)
        note_text == find_notes(els, notes, individual)
        siblings == find_siblings(els, individual)
        spouses == find_spouses(els, individual)
    IN  Entry(TRUE, "name", format_name(e.name))
        \o Entry(TRUE, "gender", get_gender(e))
        \o Entry(TRUE, "birth date", get_birth_data(e)[1])
        \o Entry(TRUE, "birth place", get_birth_data(e)[2])
        \o Entry(is_deceased(e), "death date", get_death_data(e)[1])
        \o Entry(is_deceased(e), "death place", get_death_data(e)[2])
        \o OccupationEntry(e)
        \o Entry(children # <<>>, "children", JoinFrom(", ", children, 1))
        \o Entry(~parents.none, "father", parents.father)
        \o Entry(~parents.none, "mother", parents.mother)
        \o Entry(note_text # None /\ note_text # "", "notes", note_text)
        \o Entry(~siblings.none /\ siblings.names # <<>>, "siblings",
                 JoinFrom(", ", siblings.names, 1))
        \o Entry(spouses # <<>>, "spouses",
                 JoinFrom(", ", [k \in DOMAIN spouses |-> spouses[k].spouse], 1))

\* the keys of a mapping, and the value under a key that it holds
Keys(info) == {info[i][1] : i \in DOMAIN info}
ValueAt(info, key) == info[CHOOSE i \in DOMAIN info : info[i][1] = key][2]

-----------------------------------------------------------------------------
(* gedcom.py: the path search, one step of the recursion at a time *)

Callers == {1, 2}

NotFoundMsg == "Error: One or both individuals not found in the GEDCOM file."
NoPathMsg == "No path found between the given individuals."

\* a value returned by find_path_recursive: a path (a list) or None
NoResult == [some |-> FALSE, path |-> <<>>]
PathResult(path) == [some |-> TRUE, path |-> path]
\* Python's truth value of such a result: None and the empty list are false
Truthy(r) == r.some /\ r.path # <<>>

NoQuery == [op |-> "none", arg |-> None, value |-> None]
NoOutcome == [kind |-> "none", msg |-> "", value |-> <<>>]
NoReport == [kind |-> "none", msg |-> "", written |-> <<>>]
Raised(msg) == [kind |-> "raise", msg |-> msg, value |-> <<>>]
Returned(value) == [kind |-> "return", msg |-> "", value |-> value]

\* a frame of find_path_recursive: at "enter" before the visited check, at
\* "loop" inside the loops over families and children, (fi, ci) the next child
Frame(cur, path) == [cur |-> cur, path |-> path, fi |-> 1, ci |-> 1, at |-> "enter"]

\* a visited set that outlives the call (a mutable default argument)
StaleVisited(old) == old

\* if visited is None: visited = set()
FreshVisited(old) == {}

\* a visited set shared by all searches (kept on the FamilyTree)
SeenByAny(c, person) == \E k \in DOMAIN visited : person \in visited[k]

\* current_person.get_pointer() in visited, for the search of caller c
Seen(c, person) == person \in visited[c]

\* the members of the unions the person is a child of (FAMC for FAMS)
ChildrenAtFamc(els, person, fi) ==
    LET families == get_families(els, person, "FAMC")
    IN  IF fi \in DOMAIN families
        THEN get_family_members(els, families[fi], "CHIL")
        ELSE <<>>

\* the children of a union are taken from the last to the first
ChildrenAtBackwards(els, person, fi) ==
    LET families == get_families(els, person, "FAMS")
        children == IF fi \in DOMAIN families
                    THEN get_family_members(els, families[fi], "CHIL")
                    ELSE <<>>
    IN  [k \in DOMAIN children |-> children[Len(children) + 1 - k]]

\* the children of the fi-th union of person, empty beyond the last union
ChildrenAt(els, person, fi) ==
    LET families == get_families(els, person, "FAMS")
    IN  IF fi \in DOMAIN families
        THEN get_family_members(els, families[fi], "CHIL")
        ELSE <<>>

\* only the first union is searched (families[0])
NextChildFirstUnion(els, person, fi, ci) ==
    IF get_families(els, person, "FAMS") # <<>> /\ fi = 1
          /\ ci <= Len(ChildrenAt(els, person, 1))
    THEN <<1, ci>>
    ELSE <<0, 0>>

\* the loops start over at the first child instead of moving on
NextChildStuck(els, person, fi, ci) ==
    IF ChildrenAt(els, person, 1) # <<>> THEN <<1, 1>> ELSE <<0, 0>>

RECURSIVE NextChild(_, _, _, _)
\* the position of the next child the loops reach from (fi, ci), or <<0, 0>>
\* when the loops are exhausted
NextChild(els, person, fi, ci) ==
    IF fi > Len(get_families(els, person, "FAMS")) THEN <<0, 0>>
    ELSE IF ci <= Len(ChildrenAt(els, person, fi)) THEN <<fi, ci>>
    ELSE NextChild(els, person, fi + 1, 1)

\* the rest of the search state is left alone
SearchUnchanged == UNCHANGED <<tree, query, target, outcome, previous, report>>

\* a frame returns r to its caller: the frame is popped; a truthy r is handed
\* on by every frame below it ("if result: return result")
ReturnFrom(c, r) ==
    /\ stack' = [stack EXCEPT ![c] = SubSeq(@, 1, Len(@) - 1)]
    /\ result' = [result EXCEPT ![c] = r]
    /\ pc' = [pc EXCEPT ![c] = IF Len(stack[c]) = 1 THEN "returned"
                                ELSE IF Truthy(r) THEN "unwind" ELSE "search"]

\* only the ancestor is checked
AncestorMissing(ancestor, descendant) == ancestor = None

\* if not ancestor or not descendant
EitherMissing(ancestor, descendant) == ancestor = None \/ descendant = None

\* find_path: resolve both names, then start the search or raise
Call(c, ancestor_name, descendant_name) ==
    /\ pc[c] \in {"idle", "done"}
    /\ pc[c] = "done" => query[c] = <<ancestor_name, descendant_name>>
    /\ previous' = [previous EXCEPT ![c] = outcome[c]]
    /\ query' = [query EXCEPT ![c] = <<ancestor_name, descendant_name>>]
    /\ LET ancestor == find_individual_by_name(parser, ancestor_name)
           descendant == find_individual_by_name(parser, descendant_name)
       IN  IF EitherMissing(ancestor, descendant)
           THEN /\ outcome' = [outcome EXCEPT ![c] = Raised(NotFoundMsg)]
                /\ pc' = [pc EXCEPT ![c] = "done"]
                /\ UNCHANGED <<target, stack, visited, result>>
           ELSE /\ target' = [target EXCEPT ![c] = descendant]
                /\ stack' = [stack EXCEPT ![c] = <<Frame(ancestor, <<>>)>>]
                /\ visited' = [visited EXCEPT ![c] = FreshVisited(@)]
                /\ result' = [result EXCEPT ![c] = NoResult]
                /\ outcome' = [outcome EXCEPT ![c] = NoOutcome]
                /\ pc' = [pc EXCEPT ![c] = "search"]
    /\ report' = [report EXCEPT ![c] = NoReport]
    /\ UNCHANGED tree

\* every branch marks in a copy of its own: the individuals on its path
MarkedOnBranch(c, frame) == Range(frame.path) \cup {frame.cur}

\* visited.add(current_person.get_pointer()), on the one set of the search
Marked(c, frame) == visited[c] \cup {frame.cur}

\* the target is looked for below the starting individual only
ReachedTargetBelowStart(c, frame) == frame.cur = target[c] /\ frame.path # <<>>

\* current_person.get_pointer() == target_person.get_pointer()
ReachedTarget(c, frame) == frame.cur = target[c]

\* find_path_recursive from its entry to its first loop: the visited check,
\* the marking, the append to the path and the test for the target
Enter(c) ==
    /\ pc[c] = "search"
    /\ stack[c] # <<>>
    /\ LET top == stack[c][Len(stack[c])]
       IN  /\ top.at = "enter"
           /\ IF Seen(c, top.cur)
              THEN /\ ReturnFrom(c, NoResult)
                   /\ UNCHANGED visited
              ELSE /\ visited' = [visited EXCEPT ![c] = Marked(c, top)]
                   /\ IF ReachedTarget(c, top)
                      THEN ReturnFrom(c, PathResult(Append(top.path, top.cur)))
                      ELSE /\ stack' = [stack EXCEPT ![c][Len(stack[c])] =
                                  [top EXCEPT !.path = Append(top.path, top.cur),
                                              !.at = "loop"]]
                           /\ UNCHANGED <<result, pc>>
    /\ SearchUnchanged

\* one turn of the loops over families and children: recurse into the next
\* child with a copy of the path, or return None when no child is left
Loop(c) ==
    /\ pc[c] = "search"
    /\ stack[c] # <<>>
    /\ LET top == stack[c][Len(stack[c])]
           pos == NextChild(parser, top.cur, top.fi, top.ci)
       IN  /\ top.at = "loop"
           /\ IF pos = <<0, 0>>
              THEN ReturnFrom(c, NoResult)
              ELSE /\ stack' = [stack EXCEPT ![c] =
                          Append([@ EXCEPT ![Len(@)] =
                                     [top EXCEPT !.fi = pos[1], !.ci = pos[2] + 1]],
                                 Frame(ChildrenAt(parser, top.cur, pos[1])[pos[2]],
                                       top.path))]
                   /\ UNCHANGED <<result, pc>>
    /\ UNCHANGED visited
    /\ SearchUnchanged

\* "if result: return result" in a frame whose child found the target
Unwind(c) ==
    /\ pc[c] = "unwind"
    /\ ReturnFrom(c, result[c])
    /\ UNCHANGED visited
    /\ SearchUnchanged

\* the names find_path prints and returns
FormattedPath(els, path) ==
    [i \in DOMAIN path |-> format_name(ElementDictionary(els)[path[i]].name)]

\* find_path after the search: return the formatted path or raise
FindPathOutcome(els, r) ==
    IF Truthy(r) THEN Returned(FormattedPath(els, r.path)) ELSE Raised(NoPathMsg)

\* the end of find_path
Finish(c) ==
    /\ pc[c] = "returned"
    /\ outcome' = [outcome EXCEPT ![c] = FindPathOutcome(parser, result[c])]
    /\ pc' = [pc EXCEPT ![c] = "done"]
    /\ UNCHANGED <<tree, query, target, stack, visited, result, previous, report>>


-----------------------------------------------------------------------------
(* gedcom.py: the path search as one call, run to its end by a single caller *)

RECURSIVE find_path_recursive(_, _, _, _, _)
RECURSIVE SearchChildren(_, _, _, _, _, _, _)

\* find_path_recursive(current_person, target_person, path, visited): what it
\* returns (res) and the visited set it leaves behind (vis)
find_path_recursive(els, current_person, target_person, path, vis) ==
    IF current_person \in vis
    THEN [res |-> NoResult, vis |-> vis]
    ELSE IF current_person = target_person
         THEN [res |-> PathResult(Append(path, current_person)),
               vis |-> vis \cup {current_person}]
         ELSE SearchChildren(els, current_person, target_person,
                             Append(path, current_person),
                             vis \cup {current_person}, 1, 1)

\* the loops over families and children from position (fi, ci) on
SearchChildren(els, current_person, target_person, path, vis, fi, ci) ==
    LET pos == NextChild(els, current_person, fi, ci)
    IN  IF pos = <<0, 0>>
        THEN [res |-> NoResult, vis |-> vis]
        ELSE LET child == ChildrenAt(els, current_person, pos[1])[pos[2]]
                 r == find_path_recursive(els, child, target_person, path, vis)
             IN  IF Truthy(r.res)
                 THEN r
                 ELSE SearchChildren(els, current_person, target_person, path,
                                     r.vis, pos[1], pos[2] + 1)

\* find_path(ancestor_name, descendant_name): what it returns or raises
find_path(els, ancestor_name, descendant_name) ==
    LET ancestor == find_individual_by_name(els, ancestor_name)
        descendant == find_individual_by_name(els, descendant_name)
    IN  IF EitherMissing(ancestor, descendant)
        THEN Raised(NotFoundMsg)
        ELSE FindPathOutcome(els,
                 find_path_recursive(els, ancestor, descendant, <<>>, {}).res)

-----------------------------------------------------------------------------
(* biography.py: the lineage report over what find_path gave *)

AttributeErrorMsg == "AttributeError: 'str' object has no attribute 'get_birth_data'"

\* whether x is an IndividualElement of the file, which generate_biography and
\* dump_individual_info need (they call x.get_birth_data(), x.get_name(), ...)
IsIndividualElement(els, x) ==
    /\ x \in DOMAIN ElementDictionary(els)
    /\ ElementDictionary(els)[x].tag = "INDI"

RECURSIVE Dispatch(_, _, _, _)
\* the loop of write_lineage_report from the i-th element of individuals on,
\* written being the elements whose biography has been written
Dispatch(els, individuals, i, written) ==
    IF i > Len(individuals)
    THEN [kind |-> "return", msg |-> "", written |-> written]
    ELSE IF IsIndividualElement(els, individuals[i])
         THEN Dispatch(els, individuals, i + 1, Append(written, individuals[i]))
         ELSE [kind |-> "raise", msg |-> AttributeErrorMsg, written |-> written]

\* Biographer.write_lineage_report given find_path's outcome o: an exception of
\* find_path propagates, its value is dispatched element by element
write_lineage_report(els, o) ==
    IF o.kind = "raise"
    THEN [kind |-> "raise", msg |-> o.msg, written |-> <<>>]
    ELSE Dispatch(els, o.value, 1, <<>>)

\* the caller of find_path was write_lineage_report
Report(c) ==
    /\ pc[c] = "done"
    /\ report[c] = NoReport
    /\ report' = [report EXCEPT ![c] = write_lineage_report(parser, outcome[c])]
    /\ UNCHANGED <<tree, query, target, stack, visited, result, pc, outcome, previous>>

-----------------------------------------------------------------------------
(* The files searched: unions with one parent and up to MaxChil children *)

IndiNames == <<TupleName("Ann", "Lee"), TupleName("Bob", "Lee"), StringName("Cy Lee")>>

\* the names find_path is asked about: those of the file and one that is not
QueryNames == {"Ann Lee", "Bob Lee", "Cy Lee", "Zed Roe"}

\* the indices, as a sequence in increasing order, of the members of S
RECURSIVE Ascending(_)
Ascending(S) ==
    IF S = {} THEN <<>>
    ELSE LET m == CHOOSE x \in S : \A y \in S : x <= y
         IN  <<m>> \o Ascending(S \ {m})

\* the file with union f having parent husb[f] and children chil[f]; every
\* individual lists its unions as FAMS and as FAMC, in file order
SearchFile(husb, chil) ==
    LET famsOf(p) == Ascending({f \in DOMAIN FamPtrs : husb[f] = p})
        famcOf(p) == Ascending({f \in DOMAIN FamPtrs : p \in Range(chil[f])})
        indi(i) == IndiElement(IndiPtrs[i], IndiNames[i],
                       [k \in DOMAIN famsOf(IndiPtrs[i]) |->
                           Leaf("FAMS", FamPtrs[famsOf(IndiPtrs[i])[k]])]
                       \o [k \in DOMAIN famcOf(IndiPtrs[i]) |->
                           Leaf("FAMC", FamPtrs[famcOf(IndiPtrs[i])[k]])])
        fam(f) == FamElement(FamPtrs[f],
                       <<Leaf("HUSB", husb[f])>>
                       \o [k \in DOMAIN chil[f] |-> Leaf("CHIL", chil[f][k])])
    IN  [i \in DOMAIN IndiPtrs |-> indi(i)] \o [f \in DOMAIN FamPtrs |-> fam(f)]

\* parser is a file in which every union has any one parent
IsSearchFile ==
    \E husb \in [DOMAIN FamPtrs -> Range(IndiPtrs)],
       chil \in [DOMAIN FamPtrs -> SeqsNoDup(Range(IndiPtrs), MaxChil)] :
        parser = SearchFile(husb, chil)

\* parser is a file two callers search at once: union f is that of the f-th
\* individual
IsConcFile ==
    \E chil \in [DOMAIN FamPtrs -> SeqsNoDup(Range(IndiPtrs), ConcMaxChil)] :
        parser = SearchFile([f \in DOMAIN FamPtrs |-> IndiPtrs[f]], chil)

-----------------------------------------------------------------------------
(* The files queried: unions with HUSB, WIFE and children, names that may be
   shared, notes, and the events and occupations of the individuals *)

Node(tag, subs) == [tag |-> tag, value |-> "", subs |-> subs]

\* the display names of the three individuals: all different, or some shared
DistinctNames ==
    <<TupleName("Ann", "Lee"), TupleName("Bob", "Lee"), StringName("Cy Lee")>>

NamePatterns ==
    { DistinctNames,
      <<TupleName("Ann", "Lee"), StringName("Ann Lee"), StringName("Cy Lee")>>,
      <<TupleName("Bob", "Lee"), TupleName("Ann", "Lee"), StringName("Ann Lee")>>,
      <<TupleName("ann", "lee"), TupleName("Ann", "Lee"), StringName("Ann")>> }

\* the names find_individual_by_name is asked about
LookupNames == {"Ann Lee", "Bob Lee", "ann lee", "Ann", ""}

\* what the file records about the i-th individual besides its unions
Facts(i) ==
    IF i = 1 THEN <<Leaf("SEX", "M"),
                    Node("BIRT", <<Leaf("DATE", "1900"), Leaf("PLAC", "Ohio")>>),
                    Node("DEAT", <<Leaf("DATE", "1970"), Leaf("PLAC", "Iowa")>>)>>
    ELSE IF i = 2 THEN <<Leaf("SEX", "F"),
                         Node("BIRT", <<Leaf("DATE", "1925")>>),
                         Leaf("OCCU", "Miner")>>
    ELSE <<>>

\* the note references of the i-th individual; @N9@ is no note of the file
NoteRefs(i) ==
    IF i = 1 THEN <<Leaf("NOTE", "@N1@"), Leaf("NOTE", "@N2@")>>
    ELSE IF i = 2 THEN <<Leaf("NOTE", "@N9@")>>
    ELSE <<Leaf("NOTE", "@N2@"), Leaf("NOTE", "@N9@"), Leaf("NOTE", "@N1@")>>

\* the events of the f-th union
Events(f) ==
    IF f = 1 THEN <<Node("MARR", <<Leaf("DATE", "1920"), Leaf("PLAC", "Ohio")>>)>>
    ELSE <<Node("MARR", <<Leaf("DATE", "1950")>>), Node("DIV", <<Leaf("DATE", "1960")>>)>>

NoteElements ==
    << [tag |-> "NOTE", ptr |-> "@N1@", name |-> StringName(""),
        subs |-> <<Leaf("CONT", " born on a farm"), Leaf("CONT", "moved west ")>>],
       [tag |-> "NOTE", ptr |-> "@N2@", name |-> StringName(""),
        subs |-> <<Leaf("CONT", "kept bees"), Leaf("CONT", "  died old  ")>>] >>

HeadElement == [tag |-> "HEAD", ptr |-> "", name |-> StringName(""), subs |-> <<>>]

Reverse(seq) == [i \in DOMAIN seq |-> seq[Len(seq) + 1 - i]]

\* the file with union f having HUSB husb[f], WIFE wife[f] (None: no such
\* line) and children chil[f]; every individual lists its unions as FAMS and
\* its notes in file order, or both reversed, and its unions as FAMC; with
\* stray, the last individual also lists the last union as FAMC though that
\* union does not list it as CHIL
AggFile(husb, wife, chil, names, rev, stray) ==
    LET famsOf(p) == LET fs == Ascending({f \in DOMAIN FamPtrs :
                                             husb[f] = p \/ wife[f] = p})
                     IN  IF rev THEN Reverse(fs) ELSE fs
        famcOf(p) == Ascending({f \in DOMAIN FamPtrs :
                                   \/ p \in Range(chil[f])
                                   \/ /\ stray
                                      /\ p = IndiPtrs[Len(IndiPtrs)]
                                      /\ f = Len(FamPtrs)})
        indi(i) == IndiElement(IndiPtrs[i], names[i],
                       Facts(i)
                       \o [k \in DOMAIN famsOf(IndiPtrs[i]) |->
                           Leaf("FAMS", FamPtrs[famsOf(IndiPtrs[i])[k]])]
                       \o [k \in DOMAIN famcOf(IndiPtrs[i]) |->
                           Leaf("FAMC", FamPtrs[famcOf(IndiPtrs[i])[k]])]
                       \o (IF rev THEN Reverse(NoteRefs(i)) ELSE NoteRefs(i)))
        fam(f) == FamElement(FamPtrs[f],
                       (IF husb[f] # None THEN <<Leaf("HUSB", husb[f])>> ELSE <<>>)
                       \o (IF wife[f] # None THEN <<Leaf("WIFE", wife[f])>> ELSE <<>>)
                       \o Events(f)
                       \o [k \in DOMAIN chil[f] |-> Leaf("CHIL", chil[f][k])])
    IN  <<HeadElement>> \o [i \in DOMAIN IndiPtrs |-> indi(i)]
        \o [f \in DOMAIN FamPtrs |-> fam(f)] \o NoteElements

\* the unions considered: the spouses differ and are not their own children
Unions ==
    {u \in [husb : Range(IndiPtrs) \cup {None}, wife : Range(IndiPtrs) \cup {None},
            chil : SeqsNoDup(Range(IndiPtrs), MaxChil)] :
        /\ u.husb # None => u.husb # u.wife
        /\ Range(u.chil) \cap {u.husb, u.wife} = {}}

\* the file over the unions us
AggFileOf(us, names, rev, stray) ==
    AggFile([f \in DOMAIN FamPtrs |-> us[f].husb], [f \in DOMAIN FamPtrs |-> us[f].wife],
            [f \in DOMAIN FamPtrs |-> us[f].chil], names, rev, stray)

\* parser is a file over some unions: with any of the name patterns, or with
\* distinct names and the FAMS lines reversed, or with distinct names and the
\* stray FAMC line
IsAggFile ==
    \E us \in [DOMAIN FamPtrs -> Unions] :
        \/ \E names \in NamePatterns : parser = AggFileOf(us, names, FALSE, FALSE)
        \/ parser = AggFileOf(us, DistinctNames, TRUE, FALSE)
        \/ parser = AggFileOf(us, DistinctNames, FALSE, TRUE)

-----------------------------------------------------------------------------
(* The relationship queries, each made on the tree as constructed *)

Answer(op, arg, value) == [op |-> op, arg |-> arg, value |-> value]

FindIndividualByName(name) ==
    /\ ret.op = "none"
    /\ ret' = Answer("find_individual_by_name", name,
                     find_individual_by_name(parser, name))
    /\ UNCHANGED <<parser, root_notes, callers>>

FindChildren(individual) ==
    /\ ret.op = "none"
    /\ ret' = Answer("find_children", individual, find_children(parser, individual))
    /\ UNCHANGED <<parser, root_notes, callers>>

FindParents(individual) ==
    /\ ret.op = "none"
    /\ ret' = Answer("find_parents", individual, find_parents(parser, individual))
    /\ UNCHANGED <<parser, root_notes, callers>>

FindSiblings(individual) ==
    /\ ret.op = "none"
    /\ ret' = Answer("find_siblings", individual, find_siblings(parser, individual))
    /\ UNCHANGED <<parser, root_notes, callers>>

FindSpouses(individual) ==
    /\ ret.op = "none"
    /\ ret' = Answer("find_spouses", individual, find_spouses(parser, individual))
    /\ UNCHANGED <<parser, root_notes, callers>>

FindNotes(individual) ==
    /\ ret.op = "none"
    /\ ret' = Answer("find_notes", individual,
                     find_notes(parser, root_notes, individual))
    /\ UNCHANGED <<parser, root_notes, callers>>

DumpIndividualInfo(individual) ==
    /\ ret.op = "none"
    /\ ret' = Answer("dump_individual_info", individual,
                     dump_individual_info(parser, root_notes, individual))
    /\ UNCHANGED <<parser, root_notes, callers>>

-----------------------------------------------------------------------------
(* The specifications *)

InitCallers ==
    /\ query = [c \in Callers |-> <<"", "">>]
    /\ target = [c \in Callers |-> None]
    /\ stack = [c \in Callers |-> <<>>]
    /\ visited = [c \in Callers |-> {}]
    /\ result = [c \in Callers |-> NoResult]
    /\ pc = [c \in Callers |-> "idle"]
    /\ outcome = [c \in Callers |-> NoOutcome]
    /\ previous = [c \in Callers |-> NoOutcome]
    /\ report = [c \in Callers |-> NoReport]
    /\ ret = NoQuery

\* a FamilyTree constructed over a parsed file
Init ==
    /\ IsSearchFile
    /\ root_notes = cache_notes(parser)
    /\ InitCallers

\* one caller, calling find_path and then repeating the call
Next ==
    \/ \E a, d \in QueryNames : Call(1, a, d)
    \/ Enter(1)
    \/ Loop(1)
    \/ Unwind(1)
    \/ Finish(1)
    \/ Report(1)

Spec == Init /\ [][Next]_vars

\* two callers, each calling find_path once, their steps interleaved
ConcInit ==
    /\ IsConcFile
    /\ root_notes = cache_notes(parser)
    /\ InitCallers

ConcStep(c) ==
    \/ \E a, d \in QueryNames : pc[c] = "idle" /\ Call(c, a, d)
    \/ Enter(c)
    \/ Loop(c)
    \/ Unwind(c)
    \/ Finish(c)

ConcNext == \E c \in Callers : ConcStep(c)

\* one caller calling find_path once; its thread keeps running, so a step
\* that can be taken is taken
LiveNext == ConcStep(1)

LiveSpec == Init /\ [][LiveNext]_vars /\ WF_vars(LiveNext)

\* a FamilyTree constructed over a parsed file and asked one question
AggInit ==
    /\ IsAggFile
    /\ root_notes = cache_notes(parser)
    /\ InitCallers

AggNext ==
    \/ \E name \in LookupNames : FindIndividualByName(name)
    \/ \E individual \in Range(IndiPtrs) :
          \/ FindChildren(individual)
          \/ FindParents(individual)
          \/ FindSiblings(individual)
          \/ FindSpouses(individual)
          \/ FindNotes(individual)
          \/ DumpIndividualInfo(individual)

AggSpec == AggInit /\ [][AggNext]_vars

ConcSpec == ConcInit /\ [][ConcNext]_vars


-----------------------------------------------------------------------------
(* What the claims speak of, stated on the file itself *)

Individuals(els) == {els[i].ptr : i \in {j \in DOMAIN els : els[j].tag = "INDI"}}

Element(els, ptr) == els[CHOOSE i \in DOMAIN els : els[i].ptr = ptr]

\* c is a CHIL member of a union that p lists as FAMS
ParentOf(els, p, c) ==
    \E f \in Range(els) :
        /\ f.tag = "FAM"
        /\ \E k \in DOMAIN Element(els, p).subs :
              Element(els, p).subs[k] = Leaf("FAMS", f.ptr)
        /\ \E k \in DOMAIN f.subs : f.subs[k] = Leaf("CHIL", c)
        /\ \E e \in Range(els) : e.ptr = c

RECURSIVE DescendantsOf(_, _)
\* the individuals reached from those of S over parent -> child edges
DescendantsOf(els, S) ==
    LET T == S \cup {c \in Individuals(els) : \E p \in S : ParentOf(els, p, c)}
    IN  IF T = S THEN S ELSE DescendantsOf(els, T)

\* the individuals the names of caller c's query resolve to
Ancestor(c) == find_individual_by_name(parser, query[c][1])
Descendant(c) == find_individual_by_name(parser, query[c][2])

\* the file holds a cycle of two: p is a parent of q and q a parent of p
TwoCycle(els) ==
    \E p, q \in Individuals(els) : p # q /\ ParentOf(els, p, q) /\ ParentOf(els, q, p)

\* somebody is a child in two unions
ChildOfTwoUnions(els) ==
    \E e \in Range(els) :
        e.tag = "INDI" /\ Len(SelectSeq(e.subs, LAMBDA x : x.tag = "FAMC")) >= 2

(* C1: a path that find_path_recursive returns starts at the ancestor, ends at
   the descendant, goes from parent to child at every step and holds no
   individual twice. *)
C1_PathIsSimpleDescentChain ==
    result[1].some =>
        LET path == result[1].path
        IN  /\ path # <<>>
            /\ path[1] = Ancestor(1)
            /\ path[Len(path)] = Descendant(1)
            /\ \A i \in 1..(Len(path) - 1) : ParentOf(parser, path[i], path[i + 1])
            /\ \A i, j \in DOMAIN path : i # j => path[i] # path[j]

\* a path of three was returned on a file with a cycle and a child of two unions
C1_Witness ==
    /\ result[1].some
    /\ Len(result[1].path) = 3
    /\ TwoCycle(parser)
    /\ ChildOfTwoUnions(parser)

(* C2: when both names resolve, find_path returns a path exactly when the
   descendant is reachable from the ancestor over parent -> child edges, and
   raises the no-path error exactly when it is not. *)
C2_FoundIffReachable ==
    (pc[1] = "done" /\ Ancestor(1) # None /\ Descendant(1) # None) =>
        IF Descendant(1) \in DescendantsOf(parser, {Ancestor(1)})
        THEN outcome[1].kind = "return"
        ELSE outcome[1] = Raised(NoPathMsg)

\* the chain Ann -> Bob -> Cy, asked for the path from Cy up to Ann
ChainFile ==
    SearchFile(<<"@I1@", "@I2@">>, <<(<<"@I2@">>), (<<"@I3@">>)>>)

C2_Witness ==
    /\ parser = ChainFile
    /\ query[1] = <<"Cy Lee", "Ann Lee">>
    /\ pc[1] = "done"
    /\ outcome[1] = Raised(NoPathMsg)

(* C3: every search that starts comes to its end, also on a file with a
   cycle. *)
C3_SearchTerminates == (pc[1] = "search") ~> (pc[1] = "done")

\* a search went round a cycle of two, met the visited ancestor and ended
C3_Witness ==
    /\ TwoCycle(parser)
    /\ pc[1] = "done"
    /\ outcome[1] = Raised(NoPathMsg)
    /\ Cardinality(visited[1]) = 2
    /\ \E q \in visited[1] : ParentOf(parser, q, Ancestor(1))

(* C4: what find_path returns on success is the sequence of the individual
   records of the path, each of which write_lineage_report can hand to
   generate_biography. *)
C4_ReturnsIndividualRecords ==
    /\ (pc[1] = "done" /\ outcome[1].kind = "return") =>
           \A i \in DOMAIN outcome[1].value :
               IsIndividualElement(parser, outcome[1].value[i])
    /\ (outcome[1].kind = "return" /\ report[1] # NoReport) =>
           report[1] = [kind |-> "return", msg |-> "", written |-> outcome[1].value]

(* C5: a name that does not resolve makes find_path raise the not-found error
   without a search being started, and that error is not the no-path error,
   which is raised only when both names resolve. *)
C5_NotFoundBeforeSearch ==
    /\ NotFoundMsg # NoPathMsg
    /\ (pc[1] # "idle" /\ (Ancestor(1) = None \/ Descendant(1) = None)) =>
           /\ pc[1] = "done"
           /\ outcome[1] = Raised(NotFoundMsg)
           /\ stack[1] = <<>> /\ visited[1] = {} /\ result[1] = NoResult
    /\ (pc[1] = "done" /\ Ancestor(1) # None /\ Descendant(1) # None) =>
           outcome[1] # Raised(NotFoundMsg)

\* the ancestor resolves, the descendant does not
C5_Witness ==
    /\ pc[1] = "done"
    /\ Ancestor(1) # None
    /\ Descendant(1) = None
    /\ outcome[1] = Raised(NotFoundMsg)

(* C6: a repeated find_path call with the same names on the same tree gives
   what the call before it gave. *)
C6_Idempotent ==
    (pc[1] = "done" /\ previous[1] # NoOutcome) => outcome[1] = previous[1]

\* a search that found a path of three was repeated
C6_Witness ==
    /\ pc[1] = "done"
    /\ previous[1].kind = "return"
    /\ Len(previous[1].value) = 3
    /\ outcome[1].kind = "return"


(* C7: of two searches over the same tree whose steps are interleaved, each
   returns what it returns when it runs alone. *)
C7_ConcurrentSearchesIndependent ==
    \A c \in Callers :
        pc[c] = "done" => outcome[c] = find_path(parser, query[c][1], query[c][2])

\* both searches are under way, and one is about to test an individual that
\* only the other has marked visited
C7_Witness ==
    /\ pc[1] = "search" /\ pc[2] = "search"
    /\ stack[1] # <<>>
    /\ LET top == stack[1][Len(stack[1])]
       IN  /\ top.at = "enter"
           /\ top.cur \in visited[2]
           /\ top.cur \notin visited[1]


(* C8: for an individual with no recorded occupation the mapping of
   dump_individual_info has no "occupation" key. *)
C8_NoOccupationKey ==
    (ret.op = "dump_individual_info"
        /\ ~\E i \in DOMAIN Element(parser, ret.arg).subs :
               Element(parser, ret.arg).subs[i].tag = "OCCU") =>
        "occupation" \notin Keys(ret.value)

\* the lines of element e with the tag
Lines(e, tag) == SelectSeq(e.subs, LAMBDA x : x.tag = tag)

\* no two individuals of the file have the same display name
UniqueNames(els) ==
    \A i, j \in DOMAIN els :
        (els[i].tag = "INDI" /\ els[j].tag = "INDI" /\ i # j) =>
            format_name(els[i].name) # format_name(els[j].name)

\* the cross-references of the file agree: an individual lists a union as FAMS
\* exactly when the union lists it as HUSB or WIFE, and as FAMC exactly when
\* the union lists it as CHIL; a union has at most one HUSB and one WIFE
CrossReferencesAgree(els) ==
    \A f \in Range(els) : f.tag = "FAM" =>
        /\ Len(Lines(f, "HUSB")) <= 1
        /\ Len(Lines(f, "WIFE")) <= 1
        /\ \A p \in Range(els) : p.tag = "INDI" =>
              /\ Leaf("FAMS", f.ptr) \in Range(p.subs)
                    <=> (Leaf("HUSB", p.ptr) \in Range(f.subs)
                         \/ Leaf("WIFE", p.ptr) \in Range(f.subs))
              /\ Leaf("FAMC", f.ptr) \in Range(p.subs)
                    <=> Leaf("CHIL", p.ptr) \in Range(f.subs)

\* find_parents of the individual has the name in its father or mother slot
HasParentNamed(els, individual, name) ==
    /\ individual # None
    /\ ~find_parents(els, individual).none
    /\ name \in {find_parents(els, individual).father,
                 find_parents(els, individual).mother}

(* C9, as claimed: for every child listed by find_children(x), on any file,
   find_parents of that child has x in its father or mother slot. *)
C9_ParentsOfChildrenAnyFile ==
    ret.op = "find_children" =>
        \A i \in DOMAIN ret.value :
            HasParentNamed(parser, find_individual_by_name(parser, ret.value[i]),
                           NameOf(parser, ret.arg))

(* C9, amended: on a file whose display names are unique and whose
   cross-references agree, for every child listed by find_children(x) that is
   a child in exactly one union, find_parents of that child has the display
   name of x in its father or mother slot. *)
C9_ParentsOfChildren ==
    (ret.op = "find_children" /\ UniqueNames(parser) /\ CrossReferencesAgree(parser)) =>
        \A i \in DOMAIN ret.value :
            LET child == find_individual_by_name(parser, ret.value[i])
            IN  (child # None /\ Len(Lines(Element(parser, child), "FAMC")) = 1) =>
                    HasParentNamed(parser, child, NameOf(parser, ret.arg))

\* a mother of two, each a child of her union only
C9_Witness ==
    /\ ret.op = "find_children"
    /\ UniqueNames(parser)
    /\ CrossReferencesAgree(parser)
    /\ Len(ret.value) = 2
    /\ \A i \in DOMAIN ret.value :
          LET child == find_individual_by_name(parser, ret.value[i])
          IN  /\ Len(Lines(Element(parser, child), "FAMC")) = 1
              /\ find_parents(parser, child).mother = NameOf(parser, ret.arg)

\* the display name of a name: the two parts of a tuple with a blank between
\* them, a string as it is
DisplayName(name) ==
    IF name.tuple THEN name.parts[1] \o " " \o name.parts[2] ELSE name.parts[1]

(* C10: find_individual_by_name returns the first individual in file order
   whose display name is the queried name, character for character, and None
   when no individual has that name; elements that are not individuals are
   passed over. *)
C10_FirstExactMatch ==
    ret.op = "find_individual_by_name" =>
        LET matches == {i \in DOMAIN parser :
                           /\ parser[i].tag = "INDI"
                           /\ DisplayName(parser[i].name) = ret.arg}
        IN  IF matches = {} THEN ret.value = None
            ELSE /\ ret.value # None
                 /\ \E i \in matches :
                       /\ ret.value = parser[i].ptr
                       /\ \A j \in matches : i <= j

\* two individuals share the name asked for, after one named otherwise
C10_Witness ==
    /\ ret.op = "find_individual_by_name"
    /\ ret.arg = "Ann Lee"
    /\ ret.value = "@I2@"
    /\ NameOf(parser, "@I1@") = "Bob Lee"
    /\ NameOf(parser, "@I3@") = "Ann Lee"


\* the values of the lines of element e with the tag, in the order of the lines
Values(e, tag) == [i \in DOMAIN Lines(e, tag) |-> Lines(e, tag)[i].value]

RECURSIVE Flatten(_)
\* the concatenation of a sequence of sequences
Flatten(seqs) ==
    IF seqs = <<>> THEN <<>> ELSE Head(seqs) \o Flatten(Tail(seqs))

\* the display names of the members with the role in the unions that record x
\* lists under the tag: union by union in the order of x's lines, and within a
\* union in the order of its lines
RoleNames(els, x, tag, role) ==
    LET unions == Values(Element(els, x), tag)
    IN  Flatten([u \in DOMAIN unions |->
            [k \in DOMAIN Values(Element(els, unions[u]), role) |->
                DisplayName(Element(els,
                    Values(Element(els, unions[u]), role)[k]).name)]])

\* the first individual in file order with the display name of x
FirstOfName(els, x) ==
    LET same == {i \in DOMAIN els : /\ els[i].tag = "INDI"
                                    /\ DisplayName(els[i].name)
                                         = DisplayName(Element(els, x).name)}
    IN  els[CHOOSE i \in same : \A j \in same : i <= j].ptr

(* C11, as claimed: find_children returns, for every individual record taken
   by its pointer, the CHIL members of all the unions that record lists as
   FAMS, in union order and then child order. *)
C11_ChildrenOfRecord ==
    ret.op = "find_children" =>
        ret.value = RoleNames(parser, ret.arg, "FAMS", "CHIL")

(* C11, amended: find_children returns the CHIL members of all the FAMS
   unions, in union order and then child order, of the first individual in
   file order that has the display name of the given record; that is the given
   record itself when no earlier individual shares its name. *)
C11_ChildrenOfFirstOfName ==
    ret.op = "find_children" =>
        ret.value = RoleNames(parser, FirstOfName(parser, ret.arg), "FAMS", "CHIL")

\* a record whose name an earlier record has, the earlier one with children in
\* two unions and the given one with other children
C11_Witness ==
    /\ ret.op = "find_children"
    /\ FirstOfName(parser, ret.arg) # ret.arg
    /\ Len(Values(Element(parser, FirstOfName(parser, ret.arg)), "FAMS")) = 2
    /\ Len(ret.value) >= 2
    /\ ret.value # RoleNames(parser, ret.arg, "FAMS", "CHIL")
    /\ \A u \in Range(Values(Element(parser, FirstOfName(parser, ret.arg)), "FAMS")) :
          Values(Element(parser, u), "CHIL") # <<>>


\* what union u records under the tag for its event ev, None when it records
\* nothing
EventDatum(u, ev, tag) ==
    LET data == UNION {{l.value : l \in Range(Lines(e, tag))} :
                          e \in Range(Lines(u, ev))}
    IN  IF data = {} THEN None ELSE CHOOSE v \in data : TRUE

\* the role opposite to the one x has in union u, x being taken by pointer
CounterRole(u, x) == IF x \in Range(Values(u, "HUSB")) THEN "WIFE" ELSE "HUSB"

\* the entries expected of find_spouses for x: for each union x lists as FAMS,
\* in the order of its lines, the members in the counter role with the dates
\* and the place of that union
SpouseEntries(els, x) ==
    LET unions == Values(Element(els, x), "FAMS")
        entry(u, spouse) ==
            [spouse |-> DisplayName(Element(els, spouse).name),
             marriage_date |-> EventDatum(u, "MARR", "DATE"),
             marriage_place |-> EventDatum(u, "MARR", "PLAC"),
             divorce_date |-> EventDatum(u, "DIV", "DATE")]
    IN  Flatten([i \in DOMAIN unions |->
            LET u == Element(els, unions[i])
                members == Values(u, CounterRole(u, x))
            IN  [k \in DOMAIN members |-> entry(u, members[k])]])

(* C12: find_spouses returns, union by union in the order the individual
   lists them, the member in the role opposite to the individual's own (the
   role decided per union by pointer), with that union's marriage date and
   place and divorce date; a union with nobody in the opposite role gives no
   entry, so that an individual who is HUSB in one union and WIFE in another,
   both with a partner, gets exactly two entries. *)
C12_BlendedSpouses ==
    ret.op = "find_spouses" =>
        /\ ret.value = SpouseEntries(parser, ret.arg)
        /\ LET unions == Values(Element(parser, ret.arg), "FAMS")
           IN  Len(ret.value) =
                   Cardinality({i \in DOMAIN unions :
                       Values(Element(parser, unions[i]),
                              CounterRole(Element(parser, unions[i]), ret.arg)) # <<>>})

\* HUSB of the first union and WIFE of the second, each with a partner
C12_Witness ==
    /\ ret.op = "find_spouses"
    /\ Values(Element(parser, ret.arg), "FAMS") = <<"@F1@", "@F2@">>
    /\ ret.arg \in Range(Values(Element(parser, "@F1@"), "HUSB"))
    /\ ret.arg \in Range(Values(Element(parser, "@F2@"), "WIFE"))
    /\ Len(ret.value) = 2
    /\ ret.value[1].spouse = NameOf(parser, Values(Element(parser, "@F1@"), "WIFE")[1])
    /\ ret.value[2].spouse = NameOf(parser, Values(Element(parser, "@F2@"), "HUSB")[1])
    /\ ret.value[1].marriage_place = "Ohio"
    /\ ret.value[2].divorce_date = "1960"


\* the display name of the first member with the role in union u, None when
\* the union has no such member
FirstInRole(els, u, role) ==
    IF Values(Element(els, u), role) = <<>> THEN None
    ELSE DisplayName(Element(els, Values(Element(els, u), role)[1]).name)

(* C13: for the individual asked about (the one its display name resolves
   to), find_parents reports no parents when it is a child in no union and
   otherwise the HUSB and the WIFE of the first union it lists as FAMC, and of
   that union only, while find_siblings lists the CHIL members of every union
   it lists as FAMC. *)
C13_ParentsFirstSiblingsAll ==
    LET x == FirstOfName(parser, ret.arg)
        unions == Values(Element(parser, x), "FAMC")
    IN  /\ ret.op = "find_parents" =>
              IF unions = <<>> THEN ret.value.none
              ELSE ret.value = [none |-> FALSE,
                                father |-> FirstInRole(parser, unions[1], "HUSB"),
                                mother |-> FirstInRole(parser, unions[1], "WIFE")]
        /\ ret.op = "find_siblings" =>
              IF unions = <<>> THEN ret.value.none
              ELSE ret.value = [none |-> FALSE,
                                names |-> RoleNames(parser, x, "FAMC", "CHIL")]

\* a child of two unions with different parents and different children: the
\* parents are those of the first union, the siblings those of both
C13_Witness ==
    /\ ret.op = "find_parents"
    /\ FirstOfName(parser, ret.arg) = ret.arg
    /\ Values(Element(parser, ret.arg), "FAMC") = <<"@F1@", "@F2@">>
    /\ ret.value.father = FirstInRole(parser, "@F1@", "HUSB")
    /\ ret.value.father # None
    /\ FirstInRole(parser, "@F2@", "WIFE") \notin {None, ret.value.father, ret.value.mother}
    /\ Len(Values(Element(parser, "@F2@"), "CHIL")) = 2
    /\ find_siblings(parser, ret.arg).names
          = RoleNames(parser, ret.arg, "FAMC", "CHIL")
    /\ Len(find_siblings(parser, ret.arg).names)
          = Len(Values(Element(parser, "@F1@"), "CHIL")) + 2


\* the string without the blanks before its first and after its last
\* character that is not a blank
Trimmed(str) ==
    LET inked == {i \in 1..Len(str) : SubSeq(str, i, i) # " "}
    IN  IF inked = {} THEN ""
        ELSE SubSeq(str, CHOOSE i \in inked : \A j \in inked : i <= j,
                         CHOOSE i \in inked : \A j \in inked : j <= i)

\* the note records of the file, by pointer
NoteRecords(els) == {e \in Range(els) : e.tag = "NOTE" /\ e.ptr # ""}

\* the text fragments of the notes record x refers to, in encounter order:
\* reference by reference, and within a note line by line; a reference to no
\* note record of the file has no fragments
Fragments(els, x) ==
    LET refs == Values(Element(els, x), "NOTE")
    IN  Flatten([r \in DOMAIN refs |->
            IF \E n \in NoteRecords(els) : n.ptr = refs[r]
            THEN [k \in DOMAIN Element(els, refs[r]).subs |->
                     Element(els, refs[r]).subs[k].value]
            ELSE <<>>])

\* every note reference of record x is to a note record of the file
AllNotesResolve(els, x) ==
    \A r \in Range(Values(Element(els, x), "NOTE")) :
        \E n \in NoteRecords(els) : n.ptr = r

(* C14, as claimed: for an individual whose note references all resolve,
   find_notes returns the text fragments of the referenced notes, as recorded,
   joined by single spaces in encounter order. *)
C14_NotesAsRecorded ==
    (ret.op = "find_notes" /\ AllNotesResolve(parser, ret.arg)
        /\ Fragments(parser, ret.arg) # <<>>) =>
        ret.value = JoinFrom(" ", Fragments(parser, ret.arg), 1)

(* C14, amended: for an individual whose note references all resolve,
   find_notes returns the text fragments of the referenced notes, each without
   its leading and trailing blanks, joined by single spaces in encounter
   order: reference by reference as they appear on the individual, and within
   a note its text sub-elements in order. *)
C14_NotesInEncounterOrder ==
    (ret.op = "find_notes" /\ AllNotesResolve(parser, ret.arg)
        /\ Fragments(parser, ret.arg) # <<>>) =>
        ret.value = JoinFrom(" ", [k \in DOMAIN Fragments(parser, ret.arg) |->
                                      Trimmed(Fragments(parser, ret.arg)[k])], 1)

\* two references, to the second note and then to the first, of two lines each
C14_Witness ==
    /\ ret.op = "find_notes"
    /\ Values(Element(parser, ret.arg), "NOTE") = <<"@N2@", "@N1@">>
    /\ Len(Fragments(parser, ret.arg)) = 4
    /\ ret.value = "kept bees died old born on a farm moved west"


\* the text expected of the notes of record x: the fragments of the references
\* that resolve, trimmed and joined by single spaces; None without fragments
NotesText(els, x) ==
    IF Fragments(els, x) = <<>> THEN None
    ELSE JoinFrom(" ", [k \in DOMAIN Fragments(els, x) |->
                           Trimmed(Fragments(els, x)[k])], 1)

(* C15: a NOTE sub-element pointing to a pointer that is not in the index of
   root notes is treated as absent: find_notes returns what the other
   references give (None when none resolves), and dump_individual_info returns
   its mapping, with the key "notes" exactly when some reference resolves. *)
C15_DanglingNoteIgnored ==
    /\ (ret.op = "find_notes" /\ ~AllNotesResolve(parser, ret.arg)) =>
           ret.value = NotesText(parser, ret.arg)
    /\ (ret.op = "dump_individual_info" /\ ~AllNotesResolve(parser, ret.arg)) =>
           /\ ValueAt(ret.value, "name") = NameOf(parser, ret.arg)
           /\ "notes" \in Keys(ret.value) <=> NotesText(parser, ret.arg) # None
           /\ "notes" \in Keys(ret.value) =>
                  ValueAt(ret.value, "notes") = NotesText(parser, ret.arg)

\* a reference to no note of the file between two that resolve
C15_Witness ==
    /\ ret.op = "find_notes"
    /\ Values(Element(parser, ret.arg), "NOTE") = <<"@N2@", "@N9@", "@N1@">>
    /\ "@N9@" \notin DOMAIN root_notes
    /\ ret.value = "kept bees died old born on a farm moved west"


\* the frame on top of the stack of caller c
Top(c) == stack[c][Len(stack[c])]

\* in this step the frame on top of the stack goes on from the visited check
\* to its loops: its individual is expanded (its unions and children queried)
Expands(c) ==
    /\ stack[c] # <<>>
    /\ Top(c).at = "enter"
    /\ Len(stack'[c]) = Len(stack[c])
    /\ stack'[c][Len(stack[c])].at = "loop"

(* C16: during one search the visited set only grows, also when a branch
   fails and the search backtracks; it is one set for all branches; and an
   individual is marked and expanded only in a step that finds it unmarked, so
   that, the set never shrinking, it is marked and expanded at most once. *)
C16_VisitedGrowsExpandOnce ==
    [][pc[1] \in {"search", "unwind", "returned"} =>
          /\ visited[1] \subseteq visited'[1]
          /\ visited'[1] # visited[1] =>
                /\ Top(1).at = "enter"
                /\ Top(1).cur \notin visited[1]
                /\ visited'[1] = visited[1] \cup {Top(1).cur}
          /\ Expands(1) =>
                /\ Top(1).cur \notin visited[1]
                /\ Top(1).cur \in visited'[1]
          /\ \A i \in DOMAIN stack[1] :
                stack[1][i].at = "loop" => stack[1][i].cur \in visited[1]
          /\ \A i, j \in DOMAIN stack[1] :
                (i # j /\ stack[1][i].at = "loop" /\ stack[1][j].at = "loop") =>
                    stack[1][i].cur # stack[1][j].cur]_vars

\* an individual met again through a second union after its branch failed: it
\* is marked, it is on no frame below, and the frame that meets it is about to
\* give up
C16_Witness ==
    /\ pc[1] = "search"
    /\ Len(stack[1]) = 2
    /\ Top(1).at = "enter"
    /\ Top(1).cur \in visited[1]
    /\ Top(1).cur # stack[1][1].cur
    /\ Cardinality(visited[1]) = 2


\* the children of record p in the order the search meets them: union by
\* union in the order of p's FAMS lines, within a union in the order of its
\* CHIL lines
KidsOf(els, p) ==
    LET unions == Values(Element(els, p), "FAMS")
    IN  Flatten([u \in DOMAIN unions |-> Values(Element(els, unions[u]), "CHIL")])

\* the descent chains from a to d: parent to child at every step, nobody twice
Chains(els, a, d) ==
    {s \in SeqsNoDup(Individuals(els), Cardinality(Individuals(els))) :
        /\ s # <<>>
        /\ s[1] = a
        /\ s[Len(s)] = d
        /\ \A i \in 1..(Len(s) - 1) : s[i + 1] \in Range(KidsOf(els, s[i]))}

\* the place of the step from s[i] to s[i+1] among the children of s[i]
Place(els, s, i) ==
    CHOOSE k \in DOMAIN KidsOf(els, s[i]) :
        /\ KidsOf(els, s[i])[k] = s[i + 1]
        /\ \A j \in 1..(k - 1) : KidsOf(els, s[i])[j] # s[i + 1]

\* chain s turns to an earlier-listed child than chain t where the two part
Leftmost(els, s, t) ==
    \E i \in 1..(Len(s) - 1) :
        /\ i < Len(t)
        /\ \A j \in 1..i : s[j] = t[j]
        /\ Place(els, s, i) < Place(els, t, i)

(* C17: the path returned is the first one in depth-first order, unions in
   file order and within a union children in file order: of all descent
   chains from the ancestor to the descendant it is the one that, wherever it
   parts from another, goes through the earlier-listed child, whatever the
   lengths, so that a longer chain through an earlier child is returned
   rather than a shorter one through a later child. *)
C17_FirstFoundNotShortest ==
    (pc[1] = "done" /\ outcome[1].kind = "return") =>
        \E s \in Chains(parser, Ancestor(1), Descendant(1)) :
            /\ outcome[1].value = [i \in DOMAIN s |-> NameOf(parser, s[i])]
            /\ \A t \in Chains(parser, Ancestor(1), Descendant(1)) \ {s} :
                  Leftmost(parser, s, t)

\* a chain of three through the first child is returned although the
\* descendant is itself a later child of the ancestor
C17_Witness ==
    /\ pc[1] = "done"
    /\ outcome[1].kind = "return"
    /\ Len(outcome[1].value) = 3
    /\ <<Ancestor(1), Descendant(1)>> \in Chains(parser, Ancestor(1), Descendant(1))
    /\ Descendant(1) # KidsOf(parser, Ancestor(1))[1]


(* C18: the mapping of dump_individual_info has no key for a parent that the
   individual's first parent union does not record, and none of its keys
   carries a null or an empty value. *)
C18_NoNullOrEmptyField ==
    ret.op = "dump_individual_info" =>
        /\ \A i \in DOMAIN ret.value :
              ret.value[i][1] \in {"father", "mother"} => ret.value[i][2] # None
        /\ \A i \in DOMAIN ret.value : ret.value[i][2] \notin {None, ""}


\* the text sub occurs in the text str
Contains(str, sub) ==
    \E i \in 1..(Len(str) + 1 - Len(sub)) : SubSeq(str, i, i + Len(sub) - 1) = sub

(* C19: an error raised by find_path tells the caller what it is about: the
   not-found error carries a name that did not resolve, and the no-path error
   carries the names of both endpoints. *)
C19_ErrorsCarryContext ==
    (pc[1] = "done" /\ outcome[1].kind = "raise") =>
        IF EitherMissing(Ancestor(1), Descendant(1))
        THEN \E i \in 1..2 :
                /\ find_individual_by_name(parser, query[1][i]) = None
                /\ Contains(outcome[1].msg, query[1][i])
        ELSE /\ Contains(outcome[1].msg, query[1][1])
             /\ Contains(outcome[1].msg, query[1][2])


(* C20: when both names resolve to the same individual, the search succeeds
   at once with the path of that one individual: no frame ever reaches the
   loops over unions and children, no second frame is opened, and find_path
   returns the one name, whether or not the individual has children. *)
C20_SameIndividualAtOnce ==
    (pc[1] # "idle" /\ Ancestor(1) # None /\ Ancestor(1) = Descendant(1)) =>
        /\ Len(stack[1]) <= 1
        /\ \A i \in DOMAIN stack[1] : stack[1][i].at = "enter"
        /\ visited[1] \subseteq {Ancestor(1)}
        /\ pc[1] # "unwind"
        /\ pc[1] = "returned" => result[1] = PathResult(<<Ancestor(1)>>)
        /\ pc[1] = "done" => outcome[1] = Returned(<<NameOf(parser, Ancestor(1))>>)

\* the path of one for an individual with children in two unions
C20_Witness ==
    /\ pc[1] = "done"
    /\ Ancestor(1) # None
    /\ Ancestor(1) = Descendant(1)
    /\ outcome[1] = Returned(<<query[1][1]>>)
    /\ Len(Values(Element(parser, Ancestor(1)), "FAMS")) = 2
    /\ Len(KidsOf(parser, Ancestor(1))) >= 2


\* the mapping holds the key with the value
Holds(info, key, value) == key \in Keys(info) /\ ValueAt(info, key) = value

(* C21: every field of the mapping of dump_individual_info(x) describes the
   record x: children, father, mother and siblings are those of the unions of
   the very record whose name is reported, also when an earlier individual of
   the file has the display name of x. *)
C21_FieldsOfOneRecord ==
    ret.op = "dump_individual_info" =>
        LET x == ret.arg
            children == RoleNames(parser, x, "FAMS", "CHIL")
            unions == Values(Element(parser, x), "FAMC")
            siblings == RoleNames(parser, x, "FAMC", "CHIL")
        IN  /\ Holds(ret.value, "name", DisplayName(Element(parser, x).name))
            /\ IF children = <<>> THEN "children" \notin Keys(ret.value)
               ELSE Holds(ret.value, "children", JoinFrom(", ", children, 1))
            /\ IF unions = <<>>
               THEN {"father", "mother", "siblings"} \cap Keys(ret.value) = {}
               ELSE /\ Holds(ret.value, "father", FirstInRole(parser, unions[1], "HUSB"))
                    /\ Holds(ret.value, "mother", FirstInRole(parser, unions[1], "WIFE"))
                    /\ Holds(ret.value, "siblings", JoinFrom(", ", siblings, 1))


\* how often the value occurs in the sequence
Occurrences(seq, value) == Cardinality({i \in DOMAIN seq : seq[i] = value})

(* C22, as claimed: find_siblings does not leave out the individual asked
   about (the one its display name resolves to): when that individual lists a
   parent union, the result is a list that holds its own display name once
   for every parent union that lists it as CHIL, and is never empty; when it
   lists no parent union the result is None, not an empty list. *)
C22_SiblingsNeverEmpty ==
    LET x == FirstOfName(parser, ret.arg)
        unions == Values(Element(parser, x), "FAMC")
        listing == {u \in DOMAIN unions :
                       x \in Range(Values(Element(parser, unions[u]), "CHIL"))}
    IN  ret.op = "find_siblings" =>
            IF unions = <<>> THEN ret.value = NoSiblings
            ELSE /\ ~ret.value.none
                 /\ ret.value.names # <<>>
                 /\ Occurrences(ret.value.names, NameOf(parser, x))
                       >= Cardinality(listing)

(* C22, amended: find_siblings does not leave out the individual asked about
   (the one its display name resolves to): when that individual lists no
   parent union the result is None; otherwise it is a list, which holds the
   individual's own display name once for every parent union that lists it as
   CHIL (with unique display names exactly so often), and which is empty
   exactly when the parent unions list no child at all, as when the only
   parent union does not list the individual back.  The mapping of
   dump_individual_info has the key "siblings" exactly when that list is not
   empty. *)
C22_SiblingsIncludeSelf ==
    LET x == FirstOfName(parser, ret.arg)
        unions == Values(Element(parser, x), "FAMC")
        listing == {u \in DOMAIN unions :
                       x \in Range(Values(Element(parser, unions[u]), "CHIL"))}
        childless == \A u \in DOMAIN unions :
                         Values(Element(parser, unions[u]), "CHIL") = <<>>
    IN  /\ ret.op = "find_siblings" =>
              IF unions = <<>> THEN ret.value = NoSiblings
              ELSE /\ ~ret.value.none
                   /\ ret.value.names = <<>> <=> childless
                   /\ Occurrences(ret.value.names, NameOf(parser, x))
                         >= Cardinality(listing)
                   /\ UniqueNames(parser) =>
                         Occurrences(ret.value.names, NameOf(parser, x))
                            = Cardinality(listing)
        /\ ret.op = "dump_individual_info" =>
              ("siblings" \in Keys(ret.value) <=> (unions # <<>> /\ ~childless))

\* an only child of two unions: the list is its own name, twice
C22_Witness ==
    /\ ret.op = "find_siblings"
    /\ FirstOfName(parser, ret.arg) = ret.arg
    /\ Len(Values(Element(parser, ret.arg), "FAMC")) = 2
    /\ ret.value.names = <<NameOf(parser, ret.arg), NameOf(parser, ret.arg)>>
    /\ UniqueNames(parser)

=============================================================================
